---- MODULE Spec2Model ----
(***************************************************************************)
(* Pump Radar 08:30 (src/pump_radar_0830.py): the candidate selector       *)
(* build_candidates_from_api, the report step run_0830_once /              *)
(* make_excel_report_0830, the scheduler loop_until_0830 and the volume    *)
(* split of cg_get_market_chart_volumes_48h.                               *)
(*                                                                         *)
(* Numbers are exact: a float of the program is an integer or, for the     *)
(* growth percentage, a reduced fraction <<num, den>> with den > 0.        *)
(* The HTTP collaborators are the snapshot the run reads: each page of     *)
(* the markets endpoint is a response in `market`, and each asset row      *)
(* carries the answers its own chart and social requests would get.        *)
(***************************************************************************)
EXTENDS Integers, Sequences, FiniteSets

VARIABLES
    cfg,        \* arguments of build_candidates_from_api (thresholds, limit_pages)
    lcKey,      \* LUNARCRUSH_API_KEY is set
    market,     \* market[p]: the response of the markets endpoint for page p
    pc,         \* "fetch" | "scan" | "report" | "done" | "idle"
    page,       \* loop variable of the page loop
    requested,  \* pages requested so far, in order
    coins,      \* coins: rows fetched so far
    out,        \* out before the sort (Tier 1 survivors, fetch order)
    cands,      \* the list build_candidates_from_api returns
    rows,       \* rows handed to the "Top 5" sheet
    written,    \* "no" | "file" | "nopandas": outcome of make_excel_report_0830
    now,        \* scheduler: local clock, seconds since midnight of day 0
    spc,        \* scheduler: "poll" | "off"
    runStarts,  \* scheduler: clock readings at which run_0830_once was started
    vols,       \* growth estimate: the total_volumes series of one chart answer
    est         \* growth estimate: <<"none">> or <<"pct", status, growth_pct>>

selVars   == <<cfg, lcKey, market, pc, page, requested, coins, out, cands, rows, written>>
schedVars == <<now, spc, runStarts>>
growVars  == <<vols, est>>
vars      == <<selVars, schedVars, growVars>>

----------------------------------------------------------------------------
(* Bounds of the instances *)
MaxCoins == 3      \* rows of the single page, rich asset universe
MaxTop   == 6      \* rows of the single page, ranking universe
MaxCount == 7      \* rows of the single page, counting universe
MaxPages == 3      \* limit_pages, paging universe
MaxRows  == 2      \* rows per page, paging universe
MaxDays  == 2      \* days the scheduler clock is followed
MaxLen   == 5      \* samples of a volume series
MaxVol   == 3      \* largest hourly volume of a series

----------------------------------------------------------------------------
(* Exact arithmetic *)
Abs(x) == IF x < 0 THEN -x ELSE x

RECURSIVE GCD(_, _)
GCD(a, b) == IF b = 0 THEN a ELSE GCD(b, a % b)

\* the reduced fraction n/d, d > 0
Rat(n, d) == LET g == GCD(Abs(n), d) IN <<n \div g, d \div g>>

RatLt(a, b) == a[1] * b[2] < b[1] * a[2]
RatLtInt(a, k) == a[1] < k * a[2]

RECURSIVE SumSeq(_)
SumSeq(s) == IF s = <<>> THEN 0 ELSE Head(s) + SumSeq(Tail(s))

Take(s, n) == SubSeq(s, 1, IF Len(s) < n THEN Len(s) ELSE n)
Drop(s, n) == SubSeq(s, n + 1, Len(s))

Min(a, b) == IF a < b THEN a ELSE b

----------------------------------------------------------------------------
(* cg_get_markets: one page of the markets endpoint *)
CgGetMarkets(resp) ==
    IF resp.status # 200 THEN <<>> ELSE resp.rows

(* variant: the status of the chart answer is not looked at *)
ChartIgnoringStatus(status, series) ==
    IF Len(series) < 2 THEN <<0, 0>>
    ELSE LET half == Len(series) \div 2
         IN <<SumSeq(Take(series, half)), SumSeq(Drop(series, half))>>

(* cg_get_market_chart_volumes_48h: (prev, last) sums of the two halves *)
CgGetMarketChartVolumes48h(status, series) ==
    IF status # 200 THEN <<0, 0>>
    ELSE IF Len(series) < 2 THEN <<0, 0>>
    ELSE LET n    == Len(series)
             half == n \div 2
         IN <<SumSeq(Take(series, half)), SumSeq(Drop(series, half))>>

(* variant: the change is taken relative to the last half *)
GrowthOverLast(prev24, last24) ==
    IF last24 <= 0 \/ prev24 <= 0 THEN Rat(0, 1)
    ELSE Rat((last24 - prev24) * 100, last24)

(* lines 149-152: growth from the pair, 0.0 when either sum is not positive *)
GrowthPct(prev24, last24) ==
    IF last24 <= 0 \/ prev24 <= 0 THEN Rat(0, 1)
    ELSE Rat((last24 - prev24) * 100, prev24)

(* lc_get_social: (mentions, sentiment_pct) *)
LcGetSocial(key, c) ==
    IF ~key THEN <<0, 0>>
    ELSE IF c.lcStatus # 200 THEN <<0, 0>>
    ELSE <<c.social_score,
           IF c.galaxy_score < 0 THEN 0
           ELSE IF c.galaxy_score > 100 THEN 100 ELSE c.galaxy_score>>

(* str.upper() on the tickers of the asset universes *)
Upper(s) ==
    CASE s = "alp" -> "ALP"
      [] s = "bet" -> "BET"
      [] s = "gam" -> "GAM"
      [] s = "del" -> "DEL"
      [] OTHER     -> s

----------------------------------------------------------------------------
(* variant: rejects only when both social figures are low *)
SocialRejectsBoth(mentions, sentiment, k) ==
    mentions < k.social_mentions_min /\ sentiment < k.sentiment_min

(* line 156: the social screen *)
SocialRejects(mentions, sentiment, k) ==
    mentions < k.social_mentions_min \/ sentiment < k.sentiment_min

(* build_candidates_from_api, lines 138-169: the body of the per-coin try. *)
(* <<"exc">>: the body raised and the except clause skipped the coin;      *)
(* <<"skip">>: a screen rejected it; <<"cand", d>>: d was appended to out. *)
ScanCoin(c, k, key) ==
    IF c.shape # "record" THEN <<"exc">>            \* c.get on a non-dict
    ELSE IF c.capKind = "bad" THEN <<"exc">>        \* float() of a malformed field
    ELSE
      LET mcap == IF c.capKind = "null" THEN 0 ELSE c.market_cap
          vol  == c.total_volume
      IN
      IF ~(mcap < k.mcap_max /\ vol > k.vol_min) THEN <<"skip">>
      ELSE IF c.symbolKind # "str" THEN <<"exc">>   \* .upper() on a non-string
      ELSE
        LET symbol == Upper(c.symbol)
            name   == IF c.name = "" THEN symbol ELSE c.name
            pair   == CgGetMarketChartVolumes48h(c.chartStatus, c.vols)
            prev24 == pair[1]
            last24 == pair[2]
            growth_pct == GrowthPct(prev24, last24)
        IN
        IF RatLtInt(growth_pct, k.vol_growth_min_pct) THEN <<"skip">>
        ELSE
          LET soc       == LcGetSocial(key, c)
              mentions  == soc[1]
              sentiment == soc[2]
          IN
          IF SocialRejects(mentions, sentiment, k) THEN <<"skip">>
          ELSE <<"cand", [name                |-> name,
                          symbol              |-> symbol,
                          market_cap          |-> mcap,
                          volume_24h          |-> last24,
                          vol_growth_24h_pct  |-> growth_pct,
                          social_mentions_24h |-> mentions,
                          sentiment_pct       |-> sentiment]>>

(* variant: the try encloses the loop, so the first exception ends the scan *)
RECURSIVE ScanLoopAbort(_, _, _, _)
ScanLoopAbort(cs, acc, k, key) ==
    IF cs = <<>> THEN acc
    ELSE LET r == ScanCoin(Head(cs), k, key)
         IN IF r[1] = "exc" THEN acc
            ELSE IF r[1] = "cand"
            THEN ScanLoopAbort(Tail(cs), Append(acc, r[2]), k, key)
            ELSE ScanLoopAbort(Tail(cs), acc, k, key)

(* the for loop over coins: an exception or a rejection moves to the next coin *)
RECURSIVE ScanLoop(_, _, _, _)
ScanLoop(cs, acc, k, key) ==
    IF cs = <<>> THEN acc
    ELSE LET r == ScanCoin(Head(cs), k, key)
         IN IF r[1] = "cand"
            THEN ScanLoop(Tail(cs), Append(acc, r[2]), k, key)
            ELSE ScanLoop(Tail(cs), acc, k, key)

(* line 171: key (vol_growth_24h_pct, volume_24h), compared as a tuple *)
KeyLess(a, b) ==
    \/ RatLt(a.vol_growth_24h_pct, b.vol_growth_24h_pct)
    \/ /\ a.vol_growth_24h_pct = b.vol_growth_24h_pct
       /\ a.volume_24h < b.volume_24h

(* list.sort(key=..., reverse=True): descending and stable, equal keys keep *)
(* the order they had in the list                                           *)
RECURSIVE InsertDesc(_, _)
InsertDesc(x, s) ==
    IF s = <<>> THEN <<x>>
    ELSE IF KeyLess(Head(s), x) THEN <<x>> \o s
    ELSE <<Head(s)>> \o InsertDesc(x, Tail(s))

RECURSIVE SortInto(_, _)
SortInto(acc, rest) ==
    IF rest = <<>> THEN acc
    ELSE SortInto(InsertDesc(Head(rest), acc), Tail(rest))

(* variant: ascending stable sort, then reversed: equal keys swap places *)
RECURSIVE InsertTiesFirst(_, _)
InsertTiesFirst(x, s) ==
    IF s = <<>> THEN <<x>>
    ELSE IF KeyLess(x, Head(s)) THEN <<Head(s)>> \o InsertTiesFirst(x, Tail(s))
    ELSE <<x>> \o s

RECURSIVE SortTiesReversed(_)
SortTiesReversed(s) ==
    IF s = <<>> THEN <<>>
    ELSE InsertTiesFirst(s[Len(s)], SortTiesReversed(SubSeq(s, 1, Len(s) - 1)))

SortDesc(s) == SortInto(<<>>, s)

(* line 172: out[:5] *)
TopN == 5

(* variant: the list is returned whole *)
TopSliceAll(s) == s

TopSlice(s) == Take(s, TopN)

(* lines 138-169: out as the loop leaves it *)
Tier1(cs, k, key) == ScanLoop(cs, <<>>, k, key)

(* variant: a second pass when the first is empty, as a fallback tier would *)
(* add: every row passing the cap/volume screen, by total_volume           *)
RECURSIVE Tier2Rows(_, _)
Tier2Rows(cs, k) ==
    IF cs = <<>> THEN <<>>
    ELSE LET c == Head(cs)
         IN IF c.shape = "record" /\ c.capKind = "num" /\ c.symbolKind = "str"
               /\ c.market_cap < k.mcap_max /\ c.total_volume > k.vol_min
            THEN <<[name |-> c.name, symbol |-> Upper(c.symbol),
                    market_cap |-> c.market_cap, volume_24h |-> c.total_volume,
                    vol_growth_24h_pct |-> Rat(0, 1), social_mentions_24h |-> 0,
                    sentiment_pct |-> 0]>> \o Tier2Rows(Tail(cs), k)
            ELSE Tier2Rows(Tail(cs), k)

BuildWithTier2(cs, k, key) ==
    IF Tier1(cs, k, key) # <<>> THEN TopSlice(SortDesc(Tier1(cs, k, key)))
    ELSE TopSlice(SortDesc(Tier2Rows(cs, k)))

(* lines 138-172: what build_candidates_from_api returns for the fetched coins *)
BuildCandidatesFromApi(cs, k, key) == TopSlice(SortDesc(Tier1(cs, k, key)))

----------------------------------------------------------------------------
(* ai_fields_for_coin: the verdict of one row. "off": no key or no library  *)
(* (fallback WATCH); "text": a reply that is not the JSON asked for (WATCH);*)
(* otherwise the verdict of the JSON reply.                                 *)
AiReplies == {"off", "text", "BUY", "AVOID"}

AiVerdict(ai) == IF ai \in {"off", "text"} THEN "WATCH" ELSE ai

(* variant: an explanatory row when there is no candidate *)
SheetRowsPlaceholder(cs, ai) ==
    IF cs = <<>>
    THEN <<[Coin |-> <<"n/a", "-">>, MarketCap |-> 0, Volum24h |-> 0,
            CrestereVolum24h |-> Rat(0, 1), SocialMentions24h |-> 0,
            SentimentPct |-> 0, Verdict |-> "WATCH"]>>
    ELSE [i \in 1..Len(cs) |->
            [Coin |-> <<cs[i].name, cs[i].symbol>>, MarketCap |-> cs[i].market_cap,
             Volum24h |-> cs[i].volume_24h,
             CrestereVolum24h |-> cs[i].vol_growth_24h_pct,
             SocialMentions24h |-> cs[i].social_mentions_24h,
             SentimentPct |-> cs[i].sentiment_pct, Verdict |-> AiVerdict(ai)]]

(* make_excel_report_0830, lines 224-238: one row per candidate *)
SheetRows(cs, ai) ==
    [i \in 1..Len(cs) |->
        [Coin               |-> <<cs[i].name, cs[i].symbol>>,
         MarketCap          |-> cs[i].market_cap,
         Volum24h           |-> cs[i].volume_24h,
         CrestereVolum24h   |-> cs[i].vol_growth_24h_pct,
         SocialMentions24h  |-> cs[i].social_mentions_24h,
         SentimentPct       |-> cs[i].sentiment_pct,
         Verdict            |-> AiVerdict(ai)]]

----------------------------------------------------------------------------
(* Actions of one run: run_0830_once(limit_pages) *)

(* variant: an empty page is passed over and the loop goes on *)
FetchPageContinue ==
    /\ pc = "fetch"
    /\ page <= cfg.limit_pages
    /\ requested' = Append(requested, page)
    /\ coins' = coins \o CgGetMarkets(market[page])
    /\ page' = page + 1
    /\ pc' = IF page + 1 > cfg.limit_pages THEN "scan" ELSE "fetch"
    /\ UNCHANGED <<cfg, lcKey, market, out, cands, rows, written>>
    /\ UNCHANGED <<schedVars, growVars>>

(* one iteration of the page loop, lines 132-136 *)
FetchPage ==
    /\ pc = "fetch"
    /\ page <= cfg.limit_pages
    /\ LET got == CgGetMarkets(market[page])
       IN /\ requested' = Append(requested, page)
          /\ IF got = <<>>
             THEN /\ pc' = "scan"                       \* break
                  /\ UNCHANGED <<coins, page>>
             ELSE /\ coins' = coins \o got
                  /\ page' = page + 1
                  /\ pc' = IF page + 1 > cfg.limit_pages THEN "scan" ELSE "fetch"
    /\ UNCHANGED <<cfg, lcKey, market, out, cands, rows, written>>
    /\ UNCHANGED <<schedVars, growVars>>

(* lines 138-172: the scan, the sort and the slice *)
Select ==
    /\ pc = "scan"
    /\ out' = Tier1(coins, cfg, lcKey)
    /\ cands' = BuildCandidatesFromApi(coins, cfg, lcKey)
    /\ pc' = "report"
    /\ UNCHANGED <<cfg, lcKey, market, page, requested, coins, rows, written>>
    /\ UNCHANGED <<schedVars, growVars>>

(* lines 307-309 and 219-302: the report of whatever the selector returned *)
Report ==
    /\ pc = "report"
    /\ \E pandas \in BOOLEAN, ai \in AiReplies :
          IF pandas
          THEN /\ rows' = SheetRows(cands, ai)
               /\ written' = "file"
          ELSE /\ rows' = <<>>
               /\ written' = "nopandas"
    /\ pc' = "done"
    /\ UNCHANGED <<cfg, lcKey, market, page, requested, coins, out, cands>>
    /\ UNCHANGED <<schedVars, growVars>>

NextRun == FetchPage \/ Select \/ Report

----------------------------------------------------------------------------
(* The snapshots the runs read *)

SeqsUpTo(S, n) == UNION {[1..m -> S] : m \in 0..n}

(* a markets row together with the answers to its chart and social requests *)
Alpha ==
    [shape |-> "record", id |-> "alpha", symbol |-> "alp", symbolKind |-> "str",
     name |-> "Alpha", capKind |-> "num", market_cap |-> 10000000,
     total_volume |-> 1000000, chartStatus |-> 200, vols |-> <<1, 2>>,
     lcStatus |-> 200, social_score |-> 200, galaxy_score |-> 70]

Beta    == [Alpha EXCEPT !.id = "beta", !.symbol = "bet", !.name = "Beta",
                         !.vols = <<2, 3>>, !.total_volume = 900000]
Gamma   == [Alpha EXCEPT !.id = "gamma", !.symbol = "gam", !.name = "Gamma",
                         !.vols = <<2, 4>>, !.total_volume = 2000000]
Delta   == [Alpha EXCEPT !.id = "delta", !.symbol = "del", !.name = "",
                         !.total_volume = 3000000]
BigCap  == [Alpha EXCEPT !.name = "BigCap", !.market_cap = 60000000]
LowVol  == [Alpha EXCEPT !.name = "LowVol", !.total_volume = 400000]
Flat    == [Alpha EXCEPT !.name = "Flat", !.vols = <<2, 2>>]
Short   == [Alpha EXCEPT !.name = "Short", !.vols = <<5>>]
Limited == [Alpha EXCEPT !.name = "Limited", !.chartStatus = 429, !.vols = <<1, 3>>]
Quiet   == [Alpha EXCEPT !.name = "Quiet", !.social_score = 50]
Sour    == [Alpha EXCEPT !.name = "Sour", !.galaxy_score = 40]
NullCap == [Alpha EXCEPT !.name = "NullCap", !.capKind = "null", !.market_cap = 0]
BadCap  == [Alpha EXCEPT !.name = "BadCap", !.capKind = "bad", !.market_cap = 0]
BadSym  == [Alpha EXCEPT !.name = "BadSym", !.symbolKind = "int"]
NotDict == [Alpha EXCEPT !.name = "NotDict", !.shape = "string"]
\* no "id": the chart of coin "None" is asked for and is not found
NoId    == [Alpha EXCEPT !.name = "NoId", !.id = "", !.chartStatus = 404, !.vols = <<>>]

RichAssets == {Alpha, Beta, BigCap, LowVol, Flat, Short, Limited, Quiet, Sour,
               NullCap, BadCap, BadSym, NotDict, NoId}
TopAssets  == {Alpha, Beta, Gamma, Delta}
CountAssets == {Alpha, Flat, NotDict}
PageAssets == {Alpha, Beta}

(* the defaults of build_candidates_from_api, lines 127-130 *)
DefaultCfg ==
    [limit_pages |-> 1, mcap_max |-> 50000000, vol_min |-> 500000,
     vol_growth_min_pct |-> 30, social_mentions_min |-> 100, sentiment_min |-> 65]

RichCfgs == {DefaultCfg, [DefaultCfg EXCEPT !.vol_growth_min_pct = 0]}
PageCfgs == {[DefaultCfg EXCEPT !.limit_pages = n] : n \in 1..MaxPages}

Responses(assets, maxRows) ==
    {[status |-> 429, rows |-> <<>>]}
    \cup {[status |-> 200, rows |-> r] : r \in SeqsUpTo(assets, maxRows)}

SchedIdle == now = 0 /\ spc = "off" /\ runStarts = <<>>
GrowIdle  == vols = <<>> /\ est = <<"none">>
RunIdle   ==
    /\ cfg = DefaultCfg /\ lcKey = FALSE /\ market = <<>> /\ pc = "idle"
    /\ page = 1 /\ requested = <<>> /\ coins = <<>> /\ out = <<>>
    /\ cands = <<>> /\ rows = <<>> /\ written = "no"

InitRun(assets, maxRows, cfgs, keys) ==
    /\ cfg \in cfgs
    /\ lcKey \in keys
    /\ market \in [1..cfg.limit_pages -> Responses(assets, maxRows)]
    /\ pc = "fetch"
    /\ page = 1
    /\ requested = <<>>
    /\ coins = <<>>
    /\ out = <<>>
    /\ cands = <<>>
    /\ rows = <<>>
    /\ written = "no"
    /\ SchedIdle
    /\ GrowIdle

(* run_0830_once() as the program calls it: one page, every kind of row *)
Init      == InitRun(RichAssets, MaxCoins, RichCfgs, BOOLEAN)
Spec      == Init /\ [][NextRun]_vars

(* one page of up to MaxTop rows that differ in their sort keys *)
InitTop   == InitRun(TopAssets, MaxTop, {DefaultCfg}, {TRUE})
SpecTop   == InitTop /\ [][NextRun]_vars

(* one page of up to MaxCount rows: kept, rejected or raising *)
InitCount == InitRun(CountAssets, MaxCount, RichCfgs, BOOLEAN)
SpecCount == InitCount /\ [][NextRun]_vars

(* run_0830_once(limit_pages) over several pages *)
InitPages == InitRun(PageAssets, MaxRows, PageCfgs, {TRUE})
SpecPages == InitPages /\ [][NextRun]_vars

----------------------------------------------------------------------------
(* loop_until_0830: the polling loop of --auto-0830 *)

SecondsPerDay == 24 * 3600

Day(t)    == t \div SecondsPerDay
Hour(t)   == (t % SecondsPerDay) \div 3600
Minute(t) == (t % 3600) \div 60

(* the clock readings at which the process is started, and how long one   *)
(* run_0830_once() may take, in seconds                                    *)
StartTimes == {0, 8 * 3600 + 29 * 60 + 58, 8 * 3600 + 30 * 60 + 21, 12 * 3600 + 4}
RunSeconds == {0, 7, 100}

(* line 315 *)
AtTrigger(t) == Hour(t) = 8 /\ Minute(t) = 30

(* variant: only the sleep(5) of the loop, without the sleep(70) *)
SleepNoGuard(d) == d + 5

(* lines 316-318: what the iteration sleeps after a run that took d seconds *)
SleepAfterRun(d) == d + 70 + 5

InitSched ==
    /\ now \in StartTimes
    /\ spc = "poll"
    /\ runStarts = <<>>
    /\ RunIdle
    /\ GrowIdle

(* one iteration of the while True loop, lines 313-318; it has no exit *)
Poll ==
    /\ spc = "poll"
    /\ now < MaxDays * SecondsPerDay
    /\ IF AtTrigger(now)
       THEN \E d \in RunSeconds :
               /\ runStarts' = Append(runStarts, now)
               /\ now' = now + SleepAfterRun(d)
       ELSE /\ now' = now + 5
            /\ UNCHANGED runStarts
    /\ spc' = "poll"
    /\ UNCHANGED <<selVars, growVars>>

NextSched == Poll
SpecSched == InitSched /\ [][NextSched]_vars

----------------------------------------------------------------------------
(* The growth of one chart answer, as the selector computes it *)

InitGrow ==
    /\ vols \in SeqsUpTo(0..MaxVol, MaxLen)
    /\ est = <<"none">>
    /\ RunIdle
    /\ SchedIdle

(* lines 148-152 for a chart request answered with status st *)
Estimate ==
    /\ est = <<"none">>
    /\ \E st \in {200, 429} :
          LET pair == CgGetMarketChartVolumes48h(st, vols)
          IN est' = <<"pct", st, GrowthPct(pair[1], pair[2])>>
    /\ UNCHANGED vols
    /\ UNCHANGED <<selVars, schedVars>>

NextGrow == Estimate
SpecGrow == InitGrow /\ [][NextGrow]_vars

----------------------------------------------------------------------------
(* Vocabulary of the properties *)

\* build_candidates_from_api has returned; Report leaves its result untouched
Selected == pc = "report"
Fetched  == pc \in {"scan", "report", "done"}

Names(cs) == [i \in 1..Len(cs) |-> cs[i].name]

(* the market-cap/volume screen, a missing market_cap counting as 0 *)
CapOf(c) == IF c.capKind = "null" THEN 0 ELSE c.market_cap
ScreenOk(c, k) ==
    /\ c.shape = "record"
    /\ c.capKind # "bad"
    /\ CapOf(c) < k.mcap_max
    /\ c.total_volume > k.vol_min

(* processing the row raises: a non-record entry, a malformed market_cap,  *)
(* or a symbol that is not a string once the first screen is passed        *)
Raises(c, k) ==
    \/ c.shape # "record"
    \/ c.capKind = "bad"
    \/ ScreenOk(c, k) /\ c.symbolKind # "str"

GrowthOf(c) ==
    LET pair == CgGetMarketChartVolumes48h(c.chartStatus, c.vols)
    IN GrowthPct(pair[1], pair[2])

GrowthOk(c, k) == ~RatLtInt(GrowthOf(c), k.vol_growth_min_pct)

SocialOk(c, k, key) ==
    /\ LcGetSocial(key, c)[1] >= k.social_mentions_min
    /\ LcGetSocial(key, c)[2] >= k.sentiment_min

(* the row passes every screen of the Tier 1 pass; requireSocial is the    *)
(* switch the specification gives the social screen                        *)
PassesWith(c, k, key, requireSocial) ==
    /\ ScreenOk(c, k)
    /\ c.symbolKind = "str"
    /\ GrowthOk(c, k)
    /\ requireSocial => SocialOk(c, k, key)

PassesAll(c, k, key) == PassesWith(c, k, key, TRUE)

Passing(cs, k, key, requireSocial) ==
    LET Keep(c) == PassesWith(c, k, key, requireSocial) IN SelectSeq(cs, Keep)

PassCount == Cardinality({i \in 1..Len(coins) : PassesAll(coins[i], cfg, lcKey)})

(* the volume series of the row gives no growth: a chart request answered  *)
(* with another status than 200, or fewer than 2 samples                   *)
Unavailable(c) ==
    c.shape = "record" /\ (c.chartStatus # 200 \/ Len(c.vols) < 2)

SameKey(a, b) ==
    a.vol_growth_24h_pct = b.vol_growth_24h_pct /\ a.volume_24h = b.volume_24h

WithKey(cs, x) == LET Same(y) == SameKey(x, y) IN SelectSeq(cs, Same)

IsPrefix(a, b) == Len(a) <= Len(b) /\ a = SubSeq(b, 1, Len(a))

----------------------------------------------------------------------------
(* C1, as stated: whenever a report is written its data sheet gets at      *)
(* least one row, and with no candidate exactly one placeholder row whose  *)
(* verdict is WATCH.                                                       *)
OrigC1 ==
    written = "file" =>
        /\ Len(rows) >= 1
        /\ cands = <<>> => (Len(rows) = 1 /\ rows[1].Verdict = "WATCH")

(* C1, amended: the data sheet gets exactly one row per returned candidate,*)
(* in the order returned and naming that candidate; with no candidate it   *)
(* gets no row at all (a header-only sheet, no placeholder).               *)
ThmC1 ==
    written = "file" =>
        /\ Len(rows) = Len(cands)
        /\ cands = <<>> => rows = <<>>
        /\ \A i \in 1..Len(rows) :
              /\ rows[i].Coin = <<cands[i].name, cands[i].symbol>>
              /\ rows[i].CrestereVolum24h = cands[i].vol_growth_24h_pct

(* every fetched row was rejected and the report was still written, empty *)
WitC1 == written = "file" /\ coins # <<>> /\ cands = <<>> /\ rows = <<>>

----------------------------------------------------------------------------
(* C2, as stated: when the Tier 1 pass yields nothing and some fetched row *)
(* passes the cap/volume screen, a Tier 2 pass makes the returned list     *)
(* non-empty, its candidates carrying growth 0.0 and zeroed social fields. *)
OrigC2 ==
    (Selected /\ out = <<>> /\ \E i \in 1..Len(coins) : ScreenOk(coins[i], cfg)) =>
        /\ cands # <<>>
        /\ \A i \in 1..Len(cands) :
              /\ cands[i].vol_growth_24h_pct = <<0, 1>>
              /\ cands[i].social_mentions_24h = 0

(* C2, amended: there is no Tier 2 pass. When the Tier 1 pass yields       *)
(* nothing the selector returns the empty list, whatever rows pass the     *)
(* cap/volume screen; every returned candidate is a Tier 1 survivor that   *)
(* meets the growth and social thresholds.                                 *)
ThmC2 ==
    Selected =>
        /\ PassCount = 0 => cands = <<>>
        /\ \A i \in 1..Len(cands) :
              /\ \E j \in 1..Len(out) : out[j] = cands[i]
              /\ ~RatLtInt(cands[i].vol_growth_24h_pct, cfg.vol_growth_min_pct)
              /\ cands[i].social_mentions_24h >= cfg.social_mentions_min
              /\ cands[i].sentiment_pct >= cfg.sentiment_min

(* rows pass the cap/volume screen, Tier 1 is empty, nothing is returned *)
WitC2 ==
    /\ Selected
    /\ out = <<>>
    /\ \E i \in 1..Len(coins) : ScreenOk(coins[i], cfg)
    /\ cands = <<>>

----------------------------------------------------------------------------
(* C3: the returned list has at most 5 elements, and exactly               *)
(* min(5, number of fetched rows passing all screens).                     *)
ThmC3 ==
    Selected =>
        /\ Len(cands) <= 5
        /\ Len(cands) = Min(5, PassCount)

(* more than five rows pass, beside one that does not, and five are kept *)
WitC3 ==
    /\ Selected
    /\ PassCount > 5
    /\ PassCount < Len(coins)
    /\ Len(cands) = 5

----------------------------------------------------------------------------
(* C4: the returned list is in descending (growth_pct, volume) order,      *)
(* candidates with equal keys keep their fetch order, and the slice is     *)
(* taken after the sort: what is left out is no greater than what is kept. *)
ThmC4 ==
    Selected =>
        /\ Len(cands) = Min(5, Len(out))
        /\ \A i \in 1..(Len(cands) - 1) :
              \/ RatLt(cands[i + 1].vol_growth_24h_pct, cands[i].vol_growth_24h_pct)
              \/ /\ cands[i].vol_growth_24h_pct = cands[i + 1].vol_growth_24h_pct
                 /\ cands[i].volume_24h >= cands[i + 1].volume_24h
        /\ \A j \in 1..Len(out) :
              /\ IsPrefix(WithKey(cands, out[j]), WithKey(out, out[j]))
              /\ Len(WithKey(cands, out[j])) < Len(WithKey(out, out[j])) =>
                    \A i \in 1..Len(cands) : ~KeyLess(cands[i], out[j])

(* more than five survivors; two kept candidates with one key and different *)
(* names, and two with one growth and different volumes                     *)
WitC4 ==
    /\ Selected
    /\ Len(out) > 5
    /\ \E i, j \in 1..Len(cands) :
          i < j /\ SameKey(cands[i], cands[j]) /\ cands[i].name # cands[j].name
    /\ \E i \in 1..(Len(cands) - 1) :
          /\ cands[i].vol_growth_24h_pct = cands[i + 1].vol_growth_24h_pct
          /\ cands[i].volume_24h > cands[i + 1].volume_24h
    /\ \E j \in 1..Len(out) : Len(WithKey(cands, out[j])) < Len(WithKey(out, out[j]))

----------------------------------------------------------------------------
(* C5, as stated: the Tier 1 result is made of exactly the fetched rows    *)
(* that pass the cap/volume and growth screens and, when require_social is *)
(* enabled, the social screen; when it is disabled the social signal       *)
(* rejects no row.                                                         *)
OrigC5 ==
    \A requireSocial \in BOOLEAN :
        Selected => Names(out) = Names(Passing(coins, cfg, lcKey, requireSocial))

(* C5, amended: the social screen is unconditional (there is no            *)
(* require_social switch, and without a social key every row reads 0       *)
(* mentions and 0.0 sentiment). The Tier 1 result is made of exactly the   *)
(* fetched rows with market_cap < mcap_max (a missing market_cap counting  *)
(* as 0), total_volume > vol_min, growth_pct >= vol_growth_min,            *)
(* mention_count >= social_min and sentiment_pct >= sentiment_min, in      *)
(* fetch order; no row failing a screen appears in it.                     *)
ThmC5 ==
    Selected =>
        /\ Names(out) = Names(Passing(coins, cfg, lcKey, TRUE))
        /\ \A i \in 1..Len(out) :
              /\ out[i].market_cap < cfg.mcap_max
              /\ ~RatLtInt(out[i].vol_growth_24h_pct, cfg.vol_growth_min_pct)
              /\ out[i].social_mentions_24h >= cfg.social_mentions_min
              /\ out[i].sentiment_pct >= cfg.sentiment_min

(* a row is kept while another, failing nothing but the social screen, is not *)
WitC5 ==
    /\ Selected
    /\ out # <<>>
    /\ \E i \in 1..Len(coins) :
          /\ PassesWith(coins[i], cfg, lcKey, FALSE)
          /\ ~SocialOk(coins[i], cfg, lcKey)
          /\ \A j \in 1..Len(out) : out[j].name # coins[i].name

----------------------------------------------------------------------------
(* C6, as stated: a row whose volume series is unavailable has growth 0.0  *)
(* and, for any thresholds, is not in the Tier 1 result.                   *)
OrigC6 ==
    Selected =>
        \A i \in 1..Len(coins) :
            Unavailable(coins[i]) =>
                /\ GrowthOf(coins[i]) = <<0, 1>>
                /\ \A j \in 1..Len(out) : out[j].name # coins[i].name

(* C6, amended: a row whose volume series is unavailable has growth 0.0    *)
(* and, for any positive vol_growth_min, is not in the Tier 1 result       *)
(* whatever its samples say; the scan goes on, and the result is that of   *)
(* the fetched rows without the unavailable ones. With vol_growth_min <= 0 *)
(* such a row passes the growth screen and is kept with growth 0.0 and     *)
(* volume 0 when it passes the other screens.                              *)
ThmC6 ==
    Selected =>
        /\ \A i \in 1..Len(coins) :
              Unavailable(coins[i]) =>
                  /\ GrowthOf(coins[i]) = <<0, 1>>
                  /\ cfg.vol_growth_min_pct > 0 =>
                        \A j \in 1..Len(out) : out[j].name # coins[i].name
                  /\ (cfg.vol_growth_min_pct <= 0 /\ PassesAll(coins[i], cfg, lcKey)) =>
                        \E j \in 1..Len(out) :
                            /\ out[j].name = coins[i].name
                            /\ out[j].volume_24h = 0
        /\ cfg.vol_growth_min_pct > 0 =>
              LET Usable(c) == ~Unavailable(c)
              IN out = Tier1(SelectSeq(coins, Usable), cfg, lcKey)

(* a rate-limited row with rising samples is left out, the row after it is kept *)
WitC6 ==
    /\ Selected
    /\ cfg.vol_growth_min_pct > 0
    /\ \E i \in 1..Len(coins) :
          /\ Unavailable(coins[i])
          /\ coins[i].chartStatus # 200
          /\ coins[i].vols = <<1, 3>>
          /\ \E j \in (i + 1)..Len(coins) :
                \E m \in 1..Len(out) : out[m].name = coins[j].name

----------------------------------------------------------------------------
(* C7: a row whose processing raises is skipped and nothing else: the      *)
(* selector returns, and returns what it returns for the fetched rows      *)
(* without the raising ones, wherever they stand in the list.              *)
ThmC7 ==
    Selected =>
        LET Sound(c) == ~Raises(c, cfg)
        IN /\ cands = BuildCandidatesFromApi(SelectSeq(coins, Sound), cfg, lcKey)
           /\ \A i \in 1..Len(coins) :
                 Raises(coins[i], cfg) =>
                    \A j \in 1..Len(cands) : cands[j].name # coins[i].name

(* a raising row stands before a row that is returned *)
WitC7 ==
    /\ Selected
    /\ \E i \in 1..Len(coins) :
          /\ Raises(coins[i], cfg)
          /\ \E j \in (i + 1)..Len(coins) :
                \E m \in 1..Len(cands) : cands[m].name = coins[j].name

----------------------------------------------------------------------------
(* C8, as stated: no run starts unless the clock reads 08:30, and over the *)
(* whole lifetime of the process run_0830_once is started once.            *)
OrigC8 ==
    /\ \A i \in 1..Len(runStarts) : AtTrigger(runStarts[i])
    /\ Len(runStarts) <= 1

(* C8, amended: no run starts unless the clock reads 08:30 and no two runs *)
(* start within the same 08:30 minute; the loop has no exit, so the        *)
(* process goes on polling and starts a run again at 08:30 of every later  *)
(* day (the run before and its sleeps being over by then).                 *)
ThmC8 ==
    /\ spc = "poll"
    /\ \A i \in 1..Len(runStarts) : AtTrigger(runStarts[i])
    /\ \A i, j \in 1..Len(runStarts) : i < j => Day(runStarts[i]) < Day(runStarts[j])
    /\ \A d \in 1..MaxDays :
          now >= d * SecondsPerDay + 8 * 3600 + 31 * 60 =>
             \E i \in 1..Len(runStarts) : Day(runStarts[i]) = d

(* a second run, on the day after the first *)
WitC8 ==
    /\ Len(runStarts) = 2
    /\ Day(runStarts[2]) = Day(runStarts[1]) + 1

----------------------------------------------------------------------------
(* the rows of pages lo..hi, in page order *)
RECURSIVE RowsOfPages(_, _)
RowsOfPages(lo, hi) ==
    IF lo > hi THEN <<>>
    ELSE CgGetMarkets(market[lo]) \o RowsOfPages(lo + 1, hi)

PageSeq(n) == [i \in 1..n |-> i]

(* the first page that failed or came back empty, limit_pages + 1 if none *)
FirstEmpty ==
    LET E == {p \in 1..cfg.limit_pages : CgGetMarkets(market[p]) = <<>>}
    IN IF E = {} THEN cfg.limit_pages + 1
       ELSE CHOOSE p \in E : \A q \in E : p <= q

(* C9, as stated: a failed or empty page is skipped, so that the fetched   *)
(* rows are those of all pages that succeeded, in page order, the pages    *)
(* after a failed one included.                                            *)
OrigC9 ==
    Fetched => coins = RowsOfPages(1, cfg.limit_pages)

(* C9, amended: pages are requested in order up to and including the first *)
(* one that fails or returns no rows; no later page is requested, and the  *)
(* fetched rows are those of the pages before it, in page order.           *)
ThmC9 ==
    Fetched =>
        /\ requested = PageSeq(Min(FirstEmpty, cfg.limit_pages))
        /\ coins = RowsOfPages(1, FirstEmpty - 1)

(* page 1 gave rows, page 2 failed, page 3 holds rows that are never asked for *)
WitC9 ==
    /\ Fetched
    /\ cfg.limit_pages >= 3
    /\ market[1].rows # <<>>
    /\ market[2].status # 200
    /\ market[3].rows # <<>>
    /\ requested = <<1, 2>>
    /\ coins = market[1].rows

----------------------------------------------------------------------------
(* the growth of the per-half means of s, split at Len(s) \div 2 *)
HalfLen(s) == Len(s) \div 2
PrevSum(s) == SumSeq(Take(s, HalfLen(s)))
LastSum(s) == SumSeq(Drop(s, HalfLen(s)))

MeanGrowth(s) ==
    LET lp == HalfLen(s)
        ll == Len(s) - lp
    IN Rat((LastSum(s) * lp - PrevSum(s) * ll) * 100, PrevSum(s) * ll)

Increasing(s) == \A i \in 1..(Len(s) - 1) : s[i] < s[i + 1]

Answered == est[1] = "pct" /\ est[2] = 200

(* C10, as stated: for every series of length >= 2 whose half means are    *)
(* positive the growth is that of the means; for every series of even      *)
(* length with strictly increasing non-negative volumes it is positive.    *)
OrigC10 ==
    Answered =>
        /\ (Len(vols) >= 2 /\ PrevSum(vols) > 0 /\ LastSum(vols) > 0) =>
              est[3] = MeanGrowth(vols)
        /\ (Len(vols) >= 2 /\ Len(vols) % 2 = 0 /\ Increasing(vols)) =>
              est[3][1] > 0

(* C10, amended: the growth is computed from the per-half sums. For a      *)
(* series of even length with positive half sums that is the growth of the *)
(* means; for one of odd length it is (sum(last) - sum(prev)) / sum(prev)  *)
(* * 100 and never the growth of the means (a constant positive series of  *)
(* odd length has positive growth). For every series of even length with   *)
(* strictly increasing positive volumes the growth is positive.            *)
ThmC10 ==
    Answered =>
        /\ (Len(vols) >= 2 /\ PrevSum(vols) > 0 /\ LastSum(vols) > 0) =>
              /\ Len(vols) % 2 = 0 => est[3] = MeanGrowth(vols)
              /\ Len(vols) % 2 = 1 =>
                    /\ est[3] = Rat((LastSum(vols) - PrevSum(vols)) * 100, PrevSum(vols))
                    /\ est[3] # MeanGrowth(vols)
                    /\ (\A i \in 1..Len(vols) : vols[i] = vols[1]) => est[3][1] > 0
        /\ (Len(vols) >= 2 /\ Len(vols) % 2 = 0 /\ Increasing(vols) /\ vols[1] > 0) =>
              est[3][1] > 0

(* a constant series of three samples: growth 100, not 0 *)
WitC10 ==
    /\ Answered
    /\ vols = <<2, 2, 2>>
    /\ est[3] = <<100, 1>>
====
